---------------------------- MODULE Spec2Model ----------------------------
(***************************************************************************)
(* The KVN (Keyword Value Notation) line lexers, the keyword matcher and   *)
(* the error normalisation of crates/lox-io/src/ndm/kvn/parser.rs.         *)
(*                                                                         *)
(* A line is a sequence of characters (one-character strings).  Every      *)
(* regular expression of the source is translated into a left-to-right     *)
(* scan; the comment above each scan says why the greedy scan is the       *)
(* regex's leftmost-first match.  Floating-point values are the exact      *)
(* decimals their literals denote.                                         *)
(***************************************************************************)
EXTENDS Integers, Sequences, FiniteSets, TLC

VARIABLES line, key, parts, pc, op, result, shared,
          schema, lines, cursor, field, record

\* the state of a deserialization: the field schema, the line sequence, the
\* cursor (index of the next line), the index of the field being processed and
\* the record filled so far
walk == <<schema, lines, cursor, field, record>>

vars == <<line, key, parts, pc, op, result, shared, walk>>

---------------------------------------------------------------------------
(* Characters and the character classes of the regular expressions.        *)

SP == " "

TAB == "\t"

NL == "\n"

\* A decimal digit outside ASCII (U+0663, ARABIC-INDIC DIGIT THREE): the regex
\* crate's \d is Unicode-aware, str::parse is not.
UDIGIT == "U+0663"

AsciiDigit == {"0", "1", "2", "3", "4", "5", "6", "7", "8", "9"}

AsciiUpper ==
    {"A", "B", "C", "D", "E", "F", "G", "H", "I", "J", "K", "L", "M",
     "N", "O", "P", "Q", "R", "S", "T", "U", "V", "W", "X", "Y", "Z"}

AsciiLower ==
    {"a", "b", "c", "d", "e", "f", "g", "h", "i", "j", "k", "l", "m",
     "n", "o", "p", "q", "r", "s", "t", "u", "v", "w", "x", "y", "z"}

\* \s, and the characters str::trim_start / str::trim_end remove
WhiteSpace == {SP, TAB, NL, "\r"}

\* \d
UnicodeDigit == AsciiDigit \cup {UDIGIT}

\* [0-9A-Z_]
KeywordUpper == AsciiDigit \cup AsciiUpper \cup {"_"}

\* [0-9A-Za-z_]
KeywordAny == KeywordUpper \cup AsciiLower

\* [0-9A-Za-z/_*]
UnitChars == KeywordAny \cup {"/", "*"}

---------------------------------------------------------------------------
(* Scanning primitives.  A position p is the index of the next character;  *)
(* Len(s)+1 is the end of the text.                                        *)

\* X* for a character class X, greedy: the position after the longest run
Span(s, p, class) ==
    CHOOSE q \in p..(Len(s) + 1) :
        /\ \A k \in p..(q - 1) : s[k] \in class
        /\ (q = Len(s) + 1 \/ s[q] \notin class)

At(s, p, c) == p <= Len(s) /\ s[p] = c

AtClass(s, p, class) == p <= Len(s) /\ s[p] \in class

Slice(s, from, to) == SubSeq(s, from, to - 1)

\* str::trim_start
trim_start(s) == Slice(s, Span(s, 1, WhiteSpace), Len(s) + 1)

\* str::trim_end
trim_end(s) ==
    LET keep == {k \in 1..Len(s) : s[k] \notin WhiteSpace}
        last == IF keep = {} THEN 0 ELSE CHOOSE k \in keep : \A j \in keep : j <= k
    IN  SubSeq(s, 1, last)

\* str::starts_with
starts_with(s, pat) == Len(s) >= Len(pat) /\ SubSeq(s, 1, Len(pat)) = pat

\* str::trim_start_matches: removes the prefix as often as it repeats
RECURSIVE trim_start_matches(_, _)
trim_start_matches(s, pat) ==
    IF Len(pat) > 0 /\ starts_with(s, pat)
    THEN trim_start_matches(SubSeq(s, Len(pat) + 1, Len(s)), pat)
    ELSE s

COMMENT == <<"C", "O", "M", "M", "E", "N", "T">>

---------------------------------------------------------------------------
(* Values.                                                                 *)

None == [some |-> FALSE]

Some(v) == [some |-> TRUE, v |-> v]

DigitVal(c) ==
    CASE c = "0" -> 0 [] c = "1" -> 1 [] c = "2" -> 2 [] c = "3" -> 3 [] c = "4" -> 4
      [] c = "5" -> 5 [] c = "6" -> 6 [] c = "7" -> 7 [] c = "8" -> 8 [] c = "9" -> 9

\* the number a run of ASCII digits denotes
RECURSIVE DigitsVal(_)
DigitsVal(ds) ==
    IF ds = <<>> THEN 0
    ELSE 10 * DigitsVal(SubSeq(ds, 1, Len(ds) - 1)) + DigitVal(ds[Len(ds)])

AllAsciiDigits(ds) == \A k \in 1..Len(ds) : ds[k] \in AsciiDigit

RECURSIVE Pow(_, _)
Pow(b, n) == IF n = 0 THEN 1 ELSE b * Pow(b, n - 1)

\* a conversion that wraps into the target width instead of failing
IntFromStrWrapping(text, ty) ==
    LET hasSign == Len(text) > 0 /\ text[1] \in {"+", "-"}
        digits  == IF hasSign THEN SubSeq(text, 2, Len(text)) ELSE text
        mag     == DigitsVal(digits)
        val     == IF hasSign /\ text[1] = "-" THEN 0 - mag ELSE mag
    IN  IF digits = <<>> \/ ~AllAsciiDigits(digits) THEN [ok |-> FALSE]
        ELSE [ok |-> TRUE, v |-> val % Pow(2, ty.bits)]

\* <integer type>::from_str: an optional sign ('-' only for a signed type), then one
\* or more ASCII digits; a value outside the type's range is an error.
IntFromStr(text, ty) ==
    LET hasSign == Len(text) > 0 /\ text[1] \in {"+", "-"}
        neg     == hasSign /\ text[1] = "-"
        digits  == IF hasSign THEN SubSeq(text, 2, Len(text)) ELSE text
        mag     == DigitsVal(digits)
        val     == IF neg THEN 0 - mag ELSE mag
        lo      == IF ty.signed THEN 0 - Pow(2, ty.bits - 1) ELSE 0
        hi      == IF ty.signed THEN Pow(2, ty.bits - 1) - 1 ELSE Pow(2, ty.bits) - 1
    IN  IF \/ digits = <<>>
           \/ ~AllAsciiDigits(digits)
           \/ (neg /\ ~ty.signed)
        THEN [ok |-> FALSE]
        ELSE IF val < lo \/ val > hi THEN [ok |-> FALSE]
        ELSE [ok |-> TRUE, v |-> val]

\* A finite decimal neg * m * 10^e, normalised (no trailing zero in m; zero is
\* m = 0, e = 0 and compares equal whatever its sign, as -0.0 == 0.0 does).
RECURSIVE Norm(_, _, _)
Norm(neg, m, e) ==
    IF m = 0 THEN [neg |-> FALSE, m |-> 0, e |-> 0]
    ELSE IF m % 10 = 0 THEN Norm(neg, m \div 10, e + 1)
    ELSE [neg |-> neg, m |-> m, e |-> e]

\* The decimal a literal [sign] digits* [. digits*] [(e|E) [sign] digits+] denotes,
\* as f64::from_str and fast_float::parse read it: at least one mantissa digit is
\* needed and every digit must be ASCII.
DecimalFromStr(text) ==
    LET n       == Len(text)
        hasSign == n > 0 /\ text[1] \in {"+", "-"}
        neg     == hasSign /\ text[1] = "-"
        i0      == IF hasSign THEN 2 ELSE 1
        i1      == Span(text, i0, AsciiDigit)
        hasDot  == At(text, i1, ".")
        f0      == IF hasDot THEN i1 + 1 ELSE i1
        f1      == Span(text, f0, AsciiDigit)
        hasExp  == AtClass(text, f1, {"e", "E"})
        x0      == IF hasExp /\ AtClass(text, f1 + 1, {"+", "-"}) THEN f1 + 2 ELSE f1 + 1
        xneg    == hasExp /\ At(text, f1 + 1, "-")
        x1      == IF hasExp THEN Span(text, x0, AsciiDigit) ELSE f1
        intDs   == Slice(text, i0, i1)
        fracDs  == Slice(text, f0, f1)
        expDs   == IF hasExp THEN Slice(text, x0, x1) ELSE <<>>
        exp     == IF xneg THEN 0 - DigitsVal(expDs) ELSE DigitsVal(expDs)
        mant    == DigitsVal(intDs \o fracDs)
    IN  IF \/ Len(intDs) + Len(fracDs) = 0
           \/ (hasExp /\ expDs = <<>>)
           \/ x1 # n + 1
        THEN [ok |-> FALSE]
        ELSE [ok |-> TRUE, v |-> Norm(neg, mant, exp - Len(fracDs))]

---------------------------------------------------------------------------
(* Regular expressions.  A regex is a sequence of items, matched from the  *)
(* start of the text (every regex of the source begins with ^) the way the *)
(* regex crate defines its result: that of a backtracking search that      *)
(* prefers, at every choice, the greedy alternative (leftmost-first).      *)

\* a character class, [..] or one of \s \d ; Dot is . , every character but the
\* line feed
Class(set) == [neg |-> FALSE, set |-> set]

Dot == [neg |-> TRUE, set |-> {NL}]

Member(c, class) == (c \in class.set) # class.neg

\* X{lo,hi} for a class X; no upper limit when hi < 0
Rep(class, lo, hi) == <<[t |-> "rep", class |-> class, lo |-> lo, hi |-> hi]>>

\* X*
Star(class) == Rep(class, 0, 0 - 1)

\* X+
Plus(class) == Rep(class, 1, 0 - 1)

\* one literal character
Lit(c) == Rep(Class({c}), 1, 1)

\* (?:body)?
Opt(body) == <<[t |-> "opt", body |-> body]>>

\* (?<name>body)
Cap(name, body) == <<[t |-> "open", name |-> name]>> \o body \o <<[t |-> "close", name |-> name]>>

\* $
End == <<[t |-> "end"]>>

CapNames == {"keyword", "value", "unit", "yr", "mo", "dy", "hr", "mn", "sc"}

NoCaps == [n \in CapNames |-> <<0, 0>>]

NoMatch == [ok |-> FALSE]

\* how many characters of the class follow at p, at most hi of them (hi < 0: all)
RECURSIVE RunLen(_, _, _, _)
RunLen(s, p, class, hi) ==
    IF hi = 0 \/ p > Len(s) \/ ~Member(s[p], class) THEN 0
    ELSE 1 + RunLen(s, p + 1, class, hi - 1)

RECURSIVE Run(_, _, _, _)
RECURSIVE TryRep(_, _, _, _, _, _)
\* the items matched at p: [ok, caps] of the preferred match
Run(items, s, p, caps) ==
    IF Len(items) = 0 THEN [ok |-> TRUE, caps |-> caps]
    ELSE LET it   == Head(items)
             rest == Tail(items)
         IN  CASE it.t = "rep" ->
                    TryRep(RunLen(s, p, it.class, it.hi), it.lo, rest, s, p, caps)
               [] it.t = "opt" ->
                    LET taken == Run(it.body \o rest, s, p, caps)
                    IN  IF taken.ok THEN taken ELSE Run(rest, s, p, caps)
               [] it.t = "open" ->
                    Run(rest, s, p, [caps EXCEPT ![it.name] = <<p, p>>])
               [] it.t = "close" ->
                    Run(rest, s, p, [caps EXCEPT ![it.name] = <<@[1], p>>])
               [] it.t = "end" ->
                    IF p = Len(s) + 1 THEN Run(rest, s, p, caps) ELSE NoMatch

\* a repetition taking n characters, then n - 1, ... down to lo
TryRep(n, lo, rest, s, p, caps) ==
    IF n < lo THEN NoMatch
    ELSE LET taken == Run(rest, s, p + n, caps)
         IN  IF taken.ok THEN taken ELSE TryRep(n - 1, lo, rest, s, p, caps)

\* Regex::captures
Captures(re, s) == Run(re, s, 1, NoCaps)

\* Captures::name: None for a group that took no part in the match
Name(c, s, name) ==
    IF c.caps[name][1] = 0 THEN None
    ELSE Some(SubSeq(s, c.caps[name][1], c.caps[name][2] - 1))

S == Class(WhiteSpace)

D == Class(UnicodeDigit)

\* the keyword class of the other lexers in the place of [0-9A-Z_]
MatchKeyReAnyCase == Star(S) \o Cap("keyword", Star(Class(KeywordAny))) \o Star(S)

\* the pattern without its leading (?:\s*)
MatchKeyReNoLead == Cap("keyword", Star(Class(KeywordUpper))) \o Star(S)

\* parser.rs 127
\* ^(?:\s*)(?<keyword>[0-9A-Z_]*)(?:\s*)
MatchKeyRe == Star(S) \o Cap("keyword", Star(Class(KeywordUpper))) \o Star(S)

\* parser.rs 165
\* ^(?:\s*)(?<keyword>[0-9A-Z_]*)(?:\s*)=(?:\s*)(?<value>(?:(?:.*)))(?:\s*)$
StringRe ==
    Star(S) \o Cap("keyword", Star(Class(KeywordUpper))) \o Star(S) \o Lit("=")
        \o Star(S) \o Cap("value", Star(Dot)) \o Star(S) \o End

\* (?:\[(?<unit>[0-9A-Za-z/_*]*)\]?)
UnitGroup == Lit("[") \o Cap("unit", Star(Class(UnitChars))) \o Rep(Class({"]"}), 0, 1)

\* parser.rs 248
\* ^(?:\s*)(?<keyword>[0-9A-Za-z_]*)(?:\s*)=(?:\s*)(?:\[(?<unit>[0-9A-Za-z/_*]*)\]?)?$
EmptyValueRe ==
    Star(S) \o Cap("keyword", Star(Class(KeywordAny))) \o Star(S) \o Lit("=")
        \o Star(S) \o Opt(UnitGroup) \o End

\* (?:[-+]?)(?:[0-9]+)(?:\.\d*)?
IntegerValue ==
    Rep(Class({"-", "+"}), 0, 1) \o Plus(Class(AsciiDigit)) \o Opt(Lit(".") \o Star(D))

\* (?:[-+]?)(?:[0-9]+)(?:\.\d*)?(?:[eE][+-]?(?:\d+))?
NumericValue ==
    IntegerValue \o Opt(Rep(Class({"e", "E"}), 1, 1) \o Rep(Class({"+", "-"}), 0, 1) \o Plus(D))

\* one grammar for both modes: the unit group stays optional without units
NumberReOneGrammar(value, with) ==
    Star(S) \o Cap("keyword", Star(Class(KeywordAny))) \o Star(S) \o Lit("=")
        \o Star(S) \o Cap("value", value)
        \o Opt(Star(S) \o UnitGroup) \o Opt(Star(S))
        \o End

\* ^(?:\s*)(?<keyword>[0-9A-Za-z_]*)(?:\s*)=(?:\s*)(?<value>V) and then, in unit
\* mode, (?:(?:\s*)(?:\[(?<unit>[0-9A-Za-z/_*]*)\]?))?(?:\s*)?$ , else (?:\s*)$
\* (parser.rs 213; 267 ends (?:\s*)?$ , which matches the same texts)
NumberRe(value, with) ==
    Star(S) \o Cap("keyword", Star(Class(KeywordAny))) \o Star(S) \o Lit("=")
        \o Star(S) \o Cap("value", value)
        \o (IF with THEN Opt(Star(S) \o UnitGroup) \o Opt(Star(S)) ELSE Star(S))
        \o End

\* parser.rs 211, 213
IntegerRe(with) == NumberRe(IntegerValue, with)

\* parser.rs 265, 267
NumericRe(with) == NumberRe(NumericValue, with)

\* parser.rs 306
\* ^(?:\s*)?(?<keyword>[0-9A-Z_]*)(?:\s*)?=(?:\s*)?(?<value>(?<yr>(?:\d{4}))-
\* (?<mo>(?:\d{1,2}))-(?<dy>(?:\d{1,2}))T(?<hr>(?:\d{1,2})):(?<mn>(?:\d{1,2})):
\* (?<sc>(?:\d{0,2}(?:\.\d*)?)))(?:\s*)?$
DateTimeRe ==
    Opt(Star(S)) \o Cap("keyword", Star(Class(KeywordUpper))) \o Opt(Star(S)) \o Lit("=")
        \o Opt(Star(S))
        \o Cap("value",
               Cap("yr", Rep(D, 4, 4)) \o Lit("-") \o Cap("mo", Rep(D, 1, 2)) \o Lit("-")
                   \o Cap("dy", Rep(D, 1, 2)) \o Lit("T") \o Cap("hr", Rep(D, 1, 2))
                   \o Lit(":") \o Cap("mn", Rep(D, 1, 2)) \o Lit(":")
                   \o Cap("sc", Rep(D, 0, 2) \o Opt(Lit(".") \o Star(D))))
        \o Opt(Star(S)) \o End

---------------------------------------------------------------------------
(* The lexers.  A result is [tag |-> "Ok", ...] or an error                *)
(* [tag |-> <variant>, input |-> <text>]; a call that unwinds is           *)
(* [tag |-> "Panic"].                                                      *)

Err(variant, input) == [tag |-> variant, input |-> input]

Panic == [tag |-> "Panic"]

is_empty_value(input) == Captures(EmptyValueRe, input).ok

kvn_line_matches_key_new(k, input) ==
    LET captures == Captures(MatchKeyRe, input)
    IN  IF ~captures.ok THEN [tag |-> "KeywordNotFound", expected |-> k]
        ELSE [tag |-> "Ok", value |-> (trim_end(Name(captures, input, "keyword").v) = k)]

parse_kvn_string_line_new(input) ==
    IF starts_with(trim_start(input), COMMENT \o <<SP>>)
    THEN [tag |-> "Ok",
          value |-> trim_start(trim_start_matches(trim_start(input), COMMENT)),
          unit |-> None]
    ELSE IF is_empty_value(input) THEN Err("EmptyValue", input)
    ELSE LET captures == Captures(StringRe, input)
         IN  IF ~captures.ok THEN Err("InvalidFormat", input)
             ELSE IF trim_end(Name(captures, input, "keyword").v) = <<>>
             THEN Err("EmptyKeyword", input)
             ELSE IF trim_end(Name(captures, input, "value").v) = <<>>
             THEN Err("EmptyValue", input)
             ELSE [tag |-> "Ok", value |-> trim_end(Name(captures, input, "value").v),
                   unit |-> None]

\* what both number lexers do with the captures; value is value.parse::<T>() or
\* fast_float::parse(value), looked at only after the match and the keyword
NumberResult(captures, input, value) ==
    IF ~captures.ok THEN Err("InvalidFormat", input)
    ELSE IF trim_end(Name(captures, input, "keyword").v) = <<>>
    THEN Err("EmptyKeyword", input)
    ELSE IF ~value.ok THEN Err("InvalidFormat", input)
    ELSE [tag |-> "Ok", value |-> value.v, unit |-> Name(captures, input, "unit")]

\* T is the target type [signed, bits] of value.parse::<T>()
parse_kvn_integer_line_new(input, with, T) ==
    IF is_empty_value(input) THEN Err("EmptyValue", input)
    ELSE LET captures == Captures(IntegerRe(with), input)
         IN  NumberResult(captures, input, IntFromStr(Name(captures, input, "value").v, T))

parse_kvn_numeric_line_new(input, with) ==
    IF is_empty_value(input) THEN Err("EmptyValue", input)
    ELSE LET captures == Captures(NumericRe(with), input)
         IN  NumberResult(captures, input, DecimalFromStr(Name(captures, input, "value").v))

U8 == [signed |-> FALSE, bits |-> 8]

U16 == [signed |-> FALSE, bits |-> 16]

\* f64::floor of a non-negative decimal, as an integer
Floor(d) == IF d.e >= 0 THEN d.m * Pow(10, d.e) ELSE d.m \div Pow(10, 0 - d.e)

\* the whole number of seconds in the place of its fractional part
FractWhole(d) == Norm(FALSE, d.m, d.e)

\* f64::fract of a non-negative decimal
Fract(d) == IF d.e >= 0 THEN Norm(FALSE, 0, 0) ELSE Norm(FALSE, d.m % Pow(10, 0 - d.e), d.e)

\* `as u8` saturates
AsU8(n) == IF n < 0 THEN 0 ELSE IF n > 255 THEN 255 ELSE n

\* the fields of KvnDateTimeValue from what the unwrapped conversions gave; a None
\* or an Err under unwrap() unwinds
DateTimeValue(year, month, day, hour, minute, full_second, full_value) ==
    IF ~(year.ok /\ month.ok /\ day.ok /\ hour.ok /\ minute.ok /\ full_second.ok)
    THEN Panic
    ELSE [tag |-> "Ok", year |-> year.v, month |-> month.v, day |-> day.v,
          hour |-> hour.v, minute |-> minute.v,
          second |-> AsU8(Floor(full_second.v)),
          fractional_second |-> Fract(full_second.v),
          full_value |-> full_value]

parse_kvn_datetime_line_new(input) ==
    IF is_empty_value(input) THEN Err("EmptyValue", input)
    ELSE LET captures == Captures(DateTimeRe, input)
         IN  IF ~captures.ok THEN Err("InvalidFormat", input)
             ELSE IF trim_end(Name(captures, input, "keyword").v) = <<>>
             THEN Err("EmptyKeyword", input)
             ELSE DateTimeValue(IntFromStr(Name(captures, input, "yr").v, U16),
                                IntFromStr(Name(captures, input, "mo").v, U8),
                                IntFromStr(Name(captures, input, "dy").v, U8),
                                IntFromStr(Name(captures, input, "hr").v, U8),
                                IntFromStr(Name(captures, input, "mn").v, U8),
                                DecimalFromStr(Name(captures, input, "sc").v),
                                Name(captures, input, "value").v)

\* `keyword` of a value lexer: the text of the keyword group of the lexer's
\* pattern, trimmed at its end; None when the pattern does not match
LexerKeyword(call, input) ==
    LET re == CASE call.fn = "string"   -> StringRe
                [] call.fn = "integer"  -> IntegerRe(call.with_unit)
                [] call.fn = "numeric"  -> NumericRe(call.with_unit)
                [] call.fn = "datetime" -> DateTimeRe
        captures == Captures(re, input)
    IN  IF captures.ok THEN Some(trim_end(Name(captures, input, "keyword").v)) ELSE None

---------------------------------------------------------------------------
(* Error normalisation: From<Kvn*ParserErr<&str>> for KvnDeserializerErr.  *)

\* the text re-owned after a trim
FromStringParserErrTrimmed(e) ==
    CASE e.tag = "EmptyValue"    -> [tag |-> "EmptyValue", input |-> trim_end(trim_start(e.input))]
      [] e.tag = "EmptyKeyword"  -> [tag |-> "EmptyKeyword", input |-> trim_end(trim_start(e.input))]
      [] e.tag = "InvalidFormat" ->
            [tag |-> "InvalidStringFormat", input |-> trim_end(trim_start(e.input))]

FromStringParserErr(e) ==
    CASE e.tag = "EmptyValue"    -> [tag |-> "EmptyValue", input |-> e.input]
      [] e.tag = "EmptyKeyword"  -> [tag |-> "EmptyKeyword", input |-> e.input]
      [] e.tag = "InvalidFormat" -> [tag |-> "InvalidStringFormat", input |-> e.input]

FromDateTimeParserErr(e) ==
    CASE e.tag = "EmptyValue"    -> [tag |-> "EmptyValue", input |-> e.input]
      [] e.tag = "EmptyKeyword"  -> [tag |-> "EmptyKeyword", input |-> e.input]
      [] e.tag = "InvalidFormat" -> [tag |-> "InvalidDateTimeFormat", input |-> e.input]

\* every variant of the number family mapped to EmptyValue
FromNumberParserErrAllEmptyValue(e) == [tag |-> "EmptyValue", input |-> e.input]

\* the number family mapped as the string family is
FromNumberParserErrAsString(e) ==
    CASE e.tag = "EmptyValue"    -> [tag |-> "EmptyValue", input |-> e.input]
      [] e.tag = "EmptyKeyword"  -> [tag |-> "EmptyKeyword", input |-> e.input]
      [] e.tag = "InvalidFormat" -> [tag |-> "InvalidStringFormat", input |-> e.input]

FromNumberParserErr(e) ==
    CASE e.tag = "EmptyValue"    -> [tag |-> "EmptyValue", input |-> e.input]
      [] e.tag = "EmptyKeyword"  -> [tag |-> "EmptyKeyword", input |-> e.input]
      [] e.tag = "InvalidFormat" -> [tag |-> "InvalidDateTimeFormat", input |-> e.input]

\* the variant of another conversion
FromKeywordNotFoundErrAsEmptyKeyword(e) == [tag |-> "EmptyKeyword", input |-> e.expected]

FromKeywordNotFoundErr(e) == [tag |-> "KeywordNotFound", expected |-> e.expected]

ErrTags == {"EmptyKeyword", "EmptyValue", "InvalidFormat"}

NoResult == [tag |-> "None"]

\* a record with no field filled and no comment collected
NoRecord == [fields |-> <<>>, comments |-> <<>>]

---------------------------------------------------------------------------
(* The input lines.  A line is put together from parts drawn from small    *)
(* sets; `parts` keeps the parts the line was built from.                  *)

\* the longest run of blanks put between two parts
MaxWs == 1

Blanks(n) == [i \in 1..n |-> SP]

WsRuns == {Blanks(n) : n \in 0..MaxWs} \cup {<<TAB>>}

Pads == {<<>>, <<SP>>}

SinglePad == {<<SP>>}

\* target types of parse_kvn_integer_line_new::<T>: an unsigned and a signed
\* integer of IntBits bits
IntBits == 8

Targets == {[signed |-> FALSE, bits |-> IntBits], [signed |-> TRUE, bits |-> IntBits]}

StrKeywords == {<<>>, <<"K">>, <<"A", "_", "1">>, COMMENT, <<"k">>}

StrValues ==
    {<<>>, <<"V">>, <<"a", SP, "b">>, <<"a", "=", "b">>, <<"[">>,
     <<"[", "k", "m", "]">>, <<"[", "k", "m">>, <<"[", "k", SP, "m", "]">>,
     <<"x", "[", "k", "m", "]">>, <<"a", NL, "b">>}

StringParts(W) ==
    [fam : {"string"}, lead : W, kw : StrKeywords, ws2 : W, eq : {<<"=">>, <<>>},
     ws3 : W, val : StrValues, trail : W]

StringLine(p) == p.lead \o p.kw \o p.ws2 \o p.eq \o p.ws3 \o p.val \o p.trail

\* A number token: its text; kind "int" ([sign]digits), "frac" ([sign]digits and a
\* fraction), "float" (an exponent too), "none" (no value) or "bad"; int, the
\* integer [sign]digits denotes; dec, the decimal the literal denotes.
Num(text, kind, int, neg, m, e) ==
    [text |-> text, kind |-> kind, int |-> int, dec |-> [neg |-> neg, m |-> m, e |-> e]]

NumTokens ==
    {Num(<<>>, "none", 0, FALSE, 0, 0),
     Num(<<"5">>, "int", 5, FALSE, 5, 0),
     Num(<<"0", "0", "7">>, "int", 7, FALSE, 7, 0),
     Num(<<"-", "5">>, "int", 0 - 5, TRUE, 5, 0),
     Num(<<"+", "5">>, "int", 5, FALSE, 5, 0),
     Num(<<"3", "0", "0">>, "int", 300, FALSE, 3, 2),
     Num(<<"2", "8", ".", "5">>, "frac", 28, FALSE, 285, 0 - 1),
     Num(<<"5", ".">>, "frac", 5, FALSE, 5, 0),
     Num(<<"1", "e", "2">>, "float", 1, FALSE, 1, 2),
     Num(<<"2", ".", "5", "E", "-", "1">>, "float", 2, FALSE, 25, 0 - 2),
     Num(<<"5", ".", UDIGIT>>, "bad", 0, FALSE, 0, 0),
     Num(<<"x">>, "bad", 0, FALSE, 0, 0)}

\* A unit token: kind "none", "closed" ([content]), "open" (no closing bracket) or
\* "bad" (a character no unit may hold).
Unit(text, kind, content) == [text |-> text, kind |-> kind, content |-> content]

UnitTokens ==
    {Unit(<<>>, "none", <<>>),
     Unit(<<"[", "k", "m", "]">>, "closed", <<"k", "m">>),
     Unit(<<"[", "]">>, "closed", <<>>),
     Unit(<<"[", "m", "/", "s", "*", "*", "2", "]">>, "closed", <<"m", "/", "s", "*", "*", "2">>),
     Unit(<<"[", "k", "m">>, "open", <<"k", "m">>),
     Unit(<<"[", "k", SP, "m", "]">>, "bad", <<>>)}

NumKeywords == {<<>>, <<"K">>, <<"K", "x">>}

NumberParts(P, W) ==
    [fam : {"number"}, lead : P, kw : NumKeywords, ws3 : W, num : NumTokens,
     ws4 : W, unit : UnitTokens, trail : P]

NumberLine(p) ==
    p.lead \o p.kw \o <<SP, "=">> \o p.ws3 \o p.num.text \o p.ws4
        \o p.unit.text \o p.trail

\* A date-time field: its text and the number written in it.
Field(text, val) == [text |-> text, val |-> val]

YearFields ==
    {Field(<<"2", "0", "2", "1">>, 2021), Field(<<"2", "0", "2">>, 202),
     Field(<<"2", "0", "2", "1", "1">>, 20211)}

MonthFields ==
    {Field(<<"6">>, 6), Field(<<"1", "3">>, 13), Field(<<"1", "2", "3">>, 123),
     Field(<<>>, 0)}

DayFields == {Field(<<"3">>, 3), Field(<<"9", "9">>, 99)}

HourFields == {Field(<<"0", "5">>, 5), Field(<<"9", "9">>, 99)}

MinuteFields == {Field(<<"3", "3">>, 33), Field(<<"9", "9">>, 99)}

\* A seconds field: its text, the number of integer digits, the integer part and
\* the fractional part (a decimal) of the number written.
Seconds(text, digits, sec, m, e) ==
    [text |-> text, digits |-> digits, sec |-> sec, frac |-> [neg |-> FALSE, m |-> m, e |-> e]]

SecondFields ==
    {Seconds(<<"0", "0", ".", "1", "2", "3">>, 2, 0, 123, 0 - 3),
     Seconds(<<"0", "1">>, 2, 1, 0, 0),
     Seconds(<<"7">>, 1, 7, 0, 0),
     Seconds(<<"5", ".">>, 1, 5, 0, 0),
     Seconds(<<".", "5">>, 0, 0, 5, 0 - 1),
     Seconds(<<"5", "9", ".", "9", "9", "0">>, 2, 59, 99, 0 - 2),
     Seconds(<<>>, 0, 0, 0, 0),
     Seconds(<<".">>, 0, 0, 0, 0),
     Seconds(<<"1", "2", "3">>, 3, 123, 0, 0)}

DtKeywords == {<<>>, <<"K">>, <<"k">>}

DateTimeParts(W) ==
    [fam : {"datetime"}, lead : W, kw : DtKeywords, yr : YearFields,
     mo : MonthFields, dy : DayFields, hr : HourFields, mn : MinuteFields,
     sc : SecondFields, trail : W]

DateTimeText(p) ==
    p.yr.text \o <<"-">> \o p.mo.text \o <<"-">> \o p.dy.text \o <<"T">> \o p.hr.text
        \o <<":">> \o p.mn.text \o <<":">> \o p.sc.text

DateTimeLine(p) == p.lead \o p.kw \o <<SP, "=", SP>> \o DateTimeText(p) \o p.trail

\* Lines for the keyword matcher: a run of keyword characters, then a rest that
\* starts with none.
MatchRuns == {<<>>, <<"K">>, <<"K", "E", "Y">>, <<"K", "_", "1">>, <<"9">>}

MatchRests ==
    {<<>>, <<SP>>, <<"=">>, <<SP, "=", SP, "5">>, <<"x", SP, "=", SP, "5">>,
     <<"b", "=", "1", ".", "0">>, <<NL, "K">>, <<"[", "K", "]">>}

MatchKeys == {<<>>, <<"K">>, <<"K", "E", "Y">>, <<"k">>, <<"K", SP>>}

MatchParts(W) == [fam : {"match"}, lead : W, run : MatchRuns, rest : MatchRests]

MatchLine(p) == p.lead \o p.run \o p.rest

LineOf(p) ==
    CASE p.fam = "string"   -> StringLine(p)
      [] p.fam = "number"   -> NumberLine(p)
      [] p.fam = "datetime" -> DateTimeLine(p)
      [] p.fam = "match"    -> MatchLine(p)

---------------------------------------------------------------------------
(* The state machine: one call of one operation on one line, then the      *)
(* conversion of its error into the shared error.                          *)

InitWith(P, Keys) ==
    /\ parts \in P
    /\ line = LineOf(parts)
    /\ key \in Keys
    /\ pc = "input"
    /\ op = [fn |-> "none"]
    /\ result = NoResult
    /\ shared = NoResult
    /\ schema = <<>>
    /\ lines = <<>>
    /\ cursor = 1
    /\ field = 1
    /\ record = NoRecord

ParseString ==
    /\ pc = "input"
    /\ pc' = "lexed"
    /\ op' = [fn |-> "string"]
    /\ result' = parse_kvn_string_line_new(line)
    /\ UNCHANGED <<line, key, parts, shared, walk>>

ParseInteger ==
    \E with \in BOOLEAN, T \in Targets :
        /\ pc = "input"
        /\ pc' = "lexed"
        /\ op' = [fn |-> "integer", with_unit |-> with, T |-> T]
        /\ result' = parse_kvn_integer_line_new(line, with, T)
        /\ UNCHANGED <<line, key, parts, shared, walk>>

ParseNumeric ==
    \E with \in BOOLEAN :
        /\ pc = "input"
        /\ pc' = "lexed"
        /\ op' = [fn |-> "numeric", with_unit |-> with]
        /\ result' = parse_kvn_numeric_line_new(line, with)
        /\ UNCHANGED <<line, key, parts, shared, walk>>

ParseDateTime ==
    /\ pc = "input"
    /\ pc' = "lexed"
    /\ op' = [fn |-> "datetime"]
    /\ result' = parse_kvn_datetime_line_new(line)
    /\ UNCHANGED <<line, key, parts, shared, walk>>

MatchesKey ==
    /\ pc = "input"
    /\ pc' = "lexed"
    /\ op' = [fn |-> "matches"]
    /\ result' = kvn_line_matches_key_new(key, line)
    /\ UNCHANGED <<line, key, parts, shared, walk>>

\* `?` in the caller: the lexer's error becomes the shared error
FromString ==
    /\ pc = "lexed"
    /\ op.fn = "string"
    /\ result.tag \in ErrTags
    /\ pc' = "normalized"
    /\ shared' = FromStringParserErr(result)
    /\ UNCHANGED <<line, key, parts, op, result, walk>>

FromNumber ==
    /\ pc = "lexed"
    /\ op.fn \in {"integer", "numeric"}
    /\ result.tag \in ErrTags
    /\ pc' = "normalized"
    /\ shared' = FromNumberParserErr(result)
    /\ UNCHANGED <<line, key, parts, op, result, walk>>

FromDateTime ==
    /\ pc = "lexed"
    /\ op.fn = "datetime"
    /\ result.tag \in ErrTags
    /\ pc' = "normalized"
    /\ shared' = FromDateTimeParserErr(result)
    /\ UNCHANGED <<line, key, parts, op, result, walk>>

\* The step of the deserialization protocol for a mandatory field (spec 4.4, steps
\* 1, 2 and 5): peek the line and match its keyword; no match fails the call with
\* KeywordNotFound{expected}.
ExpectKeyword ==
    LET m == kvn_line_matches_key_new(key, line)
    IN  /\ pc = "input"
        /\ op' = [fn |-> "expect"]
        /\ result' = m
        /\ IF m.tag = "Ok" /\ m.value
           THEN pc' = "matched" /\ shared' = shared
           ELSE /\ pc' = "failed"
                /\ shared' = FromKeywordNotFoundErr([expected |-> key])
        /\ UNCHANGED <<line, key, parts, walk>>

InitString == InitWith(StringParts(WsRuns), {<<>>})

NextString == ParseString

SpecString == InitString /\ [][NextString]_vars

InitNumber == InitWith(NumberParts(Pads, WsRuns), {<<>>})

NextNumber == ParseInteger \/ ParseNumeric \/ ParseDateTime

SpecNumber == InitNumber /\ [][NextNumber]_vars

InitDateTime == InitWith(DateTimeParts(WsRuns), {<<>>})

NextDateTime == ParseDateTime

SpecDateTime == InitDateTime /\ [][NextDateTime]_vars

InitMatch == InitWith(MatchParts(WsRuns), MatchKeys)

NextMatch == MatchesKey

SpecMatch == InitMatch /\ [][NextMatch]_vars

\* every operation on lines of every shape
Init ==
    InitWith(StringParts(SinglePad) \cup NumberParts(SinglePad, SinglePad)
                 \cup {p \in DateTimeParts(SinglePad) : p.dy.val = 3 /\ p.hr.val = 5}
                 \cup MatchParts(SinglePad),
             {<<"K">>})

Next ==
    \/ ParseString
    \/ ParseInteger
    \/ ParseNumeric
    \/ ParseDateTime
    \/ MatchesKey
    \/ FromString
    \/ FromNumber
    \/ FromDateTime
    \/ ExpectKeyword

Spec == Init /\ [][Next]_vars

---------------------------------------------------------------------------
(* The deserialization protocol (spec 4.4): a walk over the fields of a    *)
(* schema, in order, with a forward-only cursor over the lines.  The       *)
(* matcher, the lexers and the error conversions are the ones above.       *)

MaxLines == 3

\* a field of a schema: its keyword, its value kind and whether it is required;
\* a composite field is a float value with an optional unit, on one line
FieldOf(kw, kind, required) == [kw |-> kw, kind |-> kind, required |-> required]

\* [version: string, semi_major_axis: {base: float, unit: optional string},
\*  asdfg: float], each field required or optional
Schemas ==
    {<<FieldOf(<<"V">>, "string", r1), FieldOf(<<"A">>, "composite", r2),
       FieldOf(<<"F">>, "float", r3)>> : r1 \in BOOLEAN, r2 \in BOOLEAN, r3 \in BOOLEAN}

VersionLine == <<"V", SP, "=", SP, "3", ".", "0">>

AxisUnitLine == <<SP, "A", SP, "=", SP, "4", ".", "5", SP, "[", "k", "m", "]">>

AxisLine == <<"A", SP, "=", SP, "4", ".", "5">>

FloatLine == <<SP, "F", SP, "=", SP, "1", "2", ".", "5">>

BadFloatLine == <<"F", SP, "=", SP, "x">>

CommentLine == <<"C", "O", "M", "M", "E", "N", "T", SP, "c">>

StreamLines ==
    {VersionLine, AxisUnitLine, AxisLine, FloatLine, BadFloatLine, CommentLine}

\* the line sequences of at most MaxLines lines
Streams == UNION {[1..n -> StreamLines] : n \in 0..MaxLines}

\* the value of a field no line was consumed for
Default == [tag |-> "Default"]

\* step 2: the line's keyword against the field's keyword
Matches(k, l) ==
    LET m == kvn_line_matches_key_new(k, l)
    IN  m.tag = "Ok" /\ m.value

\* step 3: the lexer of the field's value kind
Dispatch(f, l) ==
    CASE f.kind = "string"    -> parse_kvn_string_line_new(l)
      [] f.kind = "float"     -> parse_kvn_numeric_line_new(l, FALSE)
      [] f.kind = "composite" -> parse_kvn_numeric_line_new(l, TRUE)

\* step 3: the error of the field's lexer as the shared error
Normalize(f, e) ==
    IF f.kind = "string" THEN FromStringParserErr(e) ELSE FromNumberParserErr(e)

InitProtocol ==
    /\ schema \in Schemas
    /\ lines \in Streams
    /\ cursor = 1
    /\ field = 1
    /\ record = NoRecord
    /\ pc = "walk"
    /\ op = [fn |-> "deserialize"]
    /\ line = <<>>
    /\ key = <<>>
    /\ parts = [fam |-> "stream"]
    /\ result = NoResult
    /\ shared = NoResult

HasField == field <= Len(schema)

HasLine == cursor <= Len(lines)

\* a COMMENT line among the data lines is consumed and collected; the field
\* stays the same
CollectComment ==
    /\ pc = "walk" /\ HasField /\ HasLine
    /\ Matches(COMMENT, lines[cursor])
    /\ LET comment == parse_kvn_string_line_new(lines[cursor])
       IN  /\ line' = lines[cursor]
           /\ key' = COMMENT
           /\ op' = [fn |-> "comment"]
           /\ cursor' = cursor + 1
           /\ IF comment.tag = "Ok"
              THEN /\ record' = [record EXCEPT !.comments = Append(@, comment.value)]
                   /\ UNCHANGED <<pc, shared>>
              ELSE /\ pc' = "failed"
                   /\ shared' = FromStringParserErr(comment)
                   /\ UNCHANGED record
    /\ UNCHANGED <<parts, result, schema, lines, field>>

\* step 1, no line remains: a required field fails the call, an optional field
\* takes its default
Exhausted ==
    /\ pc = "walk" /\ HasField /\ ~HasLine
    /\ line' = <<>>
    /\ key' = schema[field].kw
    /\ op' = [fn |-> "exhausted"]
    /\ IF schema[field].required
       THEN /\ pc' = "failed"
            /\ shared' = FromKeywordNotFoundErr([expected |-> schema[field].kw])
            /\ UNCHANGED <<field, record>>
       ELSE /\ field' = field + 1
            /\ record' = [record EXCEPT !.fields = Append(@, Default)]
            /\ UNCHANGED <<pc, shared>>
    /\ UNCHANGED <<parts, result, schema, lines, cursor>>

\* steps 2, 3 and 6: the peeked line matches; it is consumed and lexed, the value
\* (with its unit, for a composite) is stored or the normalized error fails the call
Consume ==
    /\ pc = "walk" /\ HasField /\ HasLine
    /\ ~Matches(COMMENT, lines[cursor])
    /\ Matches(schema[field].kw, lines[cursor])
    /\ LET value == Dispatch(schema[field], lines[cursor])
       IN  /\ line' = lines[cursor]
           /\ key' = schema[field].kw
           /\ op' = [fn |-> "consume"]
           /\ cursor' = cursor + 1
           /\ IF value.tag = "Ok"
              THEN /\ field' = field + 1
                   /\ record' = [record EXCEPT !.fields = Append(@, value)]
                   /\ UNCHANGED <<pc, shared>>
              ELSE /\ pc' = "failed"
                   /\ shared' = Normalize(schema[field], value)
                   /\ UNCHANGED <<field, record>>
    /\ UNCHANGED <<parts, result, schema, lines>>

\* steps 2, 4 and 5: the peeked line does not match; an optional field keeps its
\* default and the line stays for the next field, a required field fails the call
Mismatch ==
    /\ pc = "walk" /\ HasField /\ HasLine
    /\ ~Matches(COMMENT, lines[cursor])
    /\ ~Matches(schema[field].kw, lines[cursor])
    /\ line' = lines[cursor]
    /\ key' = schema[field].kw
    /\ op' = [fn |-> "mismatch"]
    /\ IF schema[field].required
       THEN /\ pc' = "failed"
            /\ shared' = FromKeywordNotFoundErr([expected |-> schema[field].kw])
            /\ UNCHANGED <<field, record>>
       ELSE /\ field' = field + 1
            /\ record' = [record EXCEPT !.fields = Append(@, Default)]
            /\ UNCHANGED <<pc, shared>>
    /\ UNCHANGED <<parts, result, schema, lines, cursor>>

\* every field is filled: the record is returned
Finish ==
    /\ pc = "walk" /\ ~HasField
    /\ pc' = "done"
    /\ op' = [fn |-> "finish"]
    /\ result' = [tag |-> "Ok", record |-> record]
    /\ UNCHANGED <<line, key, parts, shared, walk>>

NextProtocol == CollectComment \/ Exhausted \/ Consume \/ Mismatch \/ Finish

SpecProtocol == InitProtocol /\ [][NextProtocol]_vars

---------------------------------------------------------------------------
(* What the parts of a line say about it (read off the parts, not the      *)
(* lexers).                                                                *)

Blank(t) == \A k \in 1..Len(t) : t[k] \in WhiteSpace

\* a non-empty run of uppercase letters, digits and underscores
IsUpperKeyword(kw) == kw # <<>> /\ \A k \in 1..Len(kw) : kw[k] \in KeywordUpper

\* what follows the first part of a string line
AfterKeyword(p) == p.ws2 \o p.eq \o p.ws3 \o p.val \o p.trail

\* the line, without its leading white space, begins with "COMMENT "
IsCommentLine(p) ==
    p.kw = COMMENT /\ AfterKeyword(p) # <<>> /\ Head(AfterKeyword(p)) = SP

StringCalled == pc = "lexed" /\ op.fn = "string" /\ parts.fam = "string"

\* <ws>KEY<ws>=<ws>VALUE<ws> on one line, VALUE not blank
IsKeyValueLine(p) ==
    /\ IsUpperKeyword(p.kw)
    /\ p.eq = <<"=">>
    /\ ~Blank(p.val)
    /\ \A k \in 1..Len(p.val) : p.val[k] # NL
    /\ ~IsCommentLine(p)

\* C1: for every line <ws>KEY<ws>=<ws>VALUE<ws> that is no comment, KEY a non-empty
\* run of uppercase letters, digits and underscores and VALUE not blank, the string
\* lexer returns Ok with no unit and the value VALUE, without leading or trailing
\* white space, whatever the white space runs are.
C1_KeyValueStripped ==
    (StringCalled /\ IsKeyValueLine(parts)) =>
        /\ result.tag = "Ok"
        /\ result.unit = None
        /\ result.value = parts.val

\* C2: for every line that begins, after its leading white space, with "COMMENT ",
\* the string lexer returns Ok with no unit and the rest of the line after that
\* prefix, every white space character of the rest kept; an empty rest gives the
\* empty string.
C2_CommentVerbatim ==
    (StringCalled /\ IsCommentLine(parts)) =>
        /\ result.tag = "Ok"
        /\ result.unit = None
        /\ result.value = Tail(AfterKeyword(parts))

NumberCalled == pc = "lexed" /\ op.fn \in {"integer", "numeric"} /\ parts.fam = "number"

\* C3: on every line made of a keyword, '=' and then nothing, only white space or
\* only a bracketed unit, the integer lexer, the float lexer (units enabled or
\* not) and the date-time lexer answer EmptyValue, never InvalidFormat.
C3_EmptyValueBeforeGrammar ==
    (/\ pc = "lexed"
     /\ op.fn \in {"integer", "numeric", "datetime"}
     /\ parts.fam = "number"
     /\ parts.kw # <<>>
     /\ parts.num.kind = "none"
     /\ parts.unit.kind \in {"none", "closed"}) =>
        result.tag = "EmptyValue"

\* the integers of a target type
InRange(v, T) ==
    IF T.signed THEN 0 - Pow(2, T.bits - 1) <= v /\ v < Pow(2, T.bits - 1)
    ELSE 0 <= v /\ v < Pow(2, T.bits)

\* the number token is one the called lexer's target type holds, and the value
\* the lexer is to return for it
IsNumberFor(call, num) ==
    IF call.fn = "integer" THEN num.kind = "int" /\ InRange(num.int, call.T)
    ELSE num.kind \in {"int", "frac", "float"}

NumberFor(call, num) == IF call.fn = "integer" THEN num.int ELSE num.dec

\* C4: on a line KEY = <number>, with or without a bracketed unit [<unit>] after
\* it: with units enabled the integer and the float lexer return Ok with the
\* number, and the unit is the bracket's content when the line has one and absent
\* when it has none; with units disabled the line with a bracketed unit is
\* InvalidFormat, and every Ok result has no unit.
C4_UnitIffBracketed ==
    /\ (/\ NumberCalled
        /\ parts.kw # <<>>
        /\ IsNumberFor(op, parts.num)
        /\ parts.unit.kind \in {"none", "closed"}) =>
           IF op.with_unit \/ parts.unit.kind = "none"
           THEN /\ result.tag = "Ok"
                /\ result.value = NumberFor(op, parts.num)
                /\ result.unit = IF parts.unit.kind = "closed"
                                 THEN Some(parts.unit.content) ELSE None
           ELSE result.tag = "InvalidFormat"
    /\ (NumberCalled /\ ~op.with_unit /\ result.tag = "Ok") => result.unit = None

C4_Witness ==
    /\ NumberCalled
    /\ op.fn = "integer"
    /\ op.with_unit
    /\ parts.num.text = <<"0", "0", "7">>
    /\ parts.ws4 = <<SP>>
    /\ parts.unit.content = <<"k", "m">>
    /\ result = [tag |-> "Ok", value |-> 7, unit |-> Some(<<"k", "m">>)]

\* C5: the integer lexer accepts [sign]digits followed by a fraction and returns
\* the integer [sign]digits denotes.
C5_FractionDiscarded ==
    (/\ NumberCalled
     /\ op.fn = "integer"
     /\ parts.kw # <<>>
     /\ parts.num.kind = "frac"
     /\ InRange(parts.num.int, op.T)
     /\ (parts.unit.kind = "none" \/ (parts.unit.kind = "closed" /\ op.with_unit))) =>
        /\ result.tag = "Ok"
        /\ result.value = parts.num.int

DateTimeCalled == pc = "lexed" /\ op.fn = "datetime" /\ parts.fam = "datetime"

MeetsDigitCounts(p) ==
    /\ Len(p.yr.text) = 4
    /\ \A f \in {p.mo, p.dy, p.hr, p.mn} : Len(f.text) \in 1..2
    /\ p.sc.digits <= 2

\* C7: the date-time lexer checks digit counts only: a line K = <date-time> is
\* accepted only if the year has 4 digits and month, day, hour and minute have 1
\* or 2 digits each, a line with another count is InvalidFormat, and every line
\* meeting the digit counts is accepted whatever the numbers are.
C7_DigitCountsDecide ==
    (DateTimeCalled /\ parts.kw = <<"K">>) =>
        /\ result.tag = "Ok" <=> MeetsDigitCounts(parts)
        /\ ~MeetsDigitCounts(parts) => result.tag = "InvalidFormat"

\* the first position of t at or after p whose character is outside class, or
\* the position after the end of t
FirstOutside(t, p, class) ==
    CHOOSE q \in p..(Len(t) + 1) :
        /\ \A k \in p..(q - 1) : t[k] \in class
        /\ q = Len(t) + 1 \/ t[q] \notin class

\* the longest run of uppercase letters, digits and underscores that follows the
\* leading white space of t
LeadingRun(t) ==
    LET b == FirstOutside(t, 1, WhiteSpace)
    IN  SubSeq(t, b, FirstOutside(t, b, KeywordUpper) - 1)

\* C8: for every expected key and every line the keyword matcher returns Ok(b),
\* never KeywordNotFound, and b is true exactly when the longest run of uppercase
\* letters, digits and underscores after the line's leading white space is the
\* expected key.
C8_TotalPredicate ==
    (pc = "lexed" /\ op.fn = "matches") =>
        /\ result.tag = "Ok"
        /\ result.value = (LeadingRun(line) = key)

C8_Witness ==
    /\ pc = "lexed"
    /\ op.fn = "matches"
    /\ key = <<"K">>
    /\ line = <<SP, "K", "x", SP, "=", SP, "5">>
    /\ result = [tag |-> "Ok", value |-> TRUE]

\* C9: normalization maps each lexer error to the shared error of its variant and
\* keeps the text: EmptyValue to EmptyValue and EmptyKeyword to EmptyKeyword in the
\* string, number and date-time families, InvalidFormat of the string family to
\* InvalidStringFormat, InvalidFormat of the number and of the date-time family to
\* InvalidDateTimeFormat, the text of the shared error being the input of the lexer
\* error.
C9_VariantByVariant ==
    pc = "normalized" =>
        /\ shared.input = result.input
        /\ shared.tag =
             CASE result.tag = "EmptyValue"    -> "EmptyValue"
               [] result.tag = "EmptyKeyword"  -> "EmptyKeyword"
               [] result.tag = "InvalidFormat" ->
                     IF op.fn = "string" THEN "InvalidStringFormat"
                     ELSE "InvalidDateTimeFormat"

C9_Witness ==
    /\ pc = "normalized"
    /\ op.fn = "integer"
    /\ result = [tag |-> "InvalidFormat", input |-> line]
    /\ shared = [tag |-> "InvalidDateTimeFormat", input |-> line]

\* the text a shared error holds
TextOf(e) == IF e.tag = "KeywordNotFound" THEN e.expected ELSE e.input

\* C10, as stated: every Err of the lexers holds exactly the line it was given, and
\* every shared error, KeywordNotFound included, holds the text of the line that
\* caused the failure.
C10_EveryErrorHoldsLine ==
    /\ result.tag \in ErrTags => result.input = line
    /\ shared.tag # "None" => TextOf(shared) = line

\* C10, amended: every Err of the lexers holds exactly the line it was given, every
\* shared error built from a lexer error holds that line, and KeywordNotFound
\* holds the expected keyword, not the line.
C10_LexerErrorsHoldLine ==
    /\ result.tag \in ErrTags => result.input = line
    /\ shared.tag \notin {"None", "KeywordNotFound"} => shared.input = line
    /\ shared.tag = "KeywordNotFound" => shared.expected = key

C10_Witness ==
    /\ pc = "failed"
    /\ shared = [tag |-> "KeywordNotFound", expected |-> key]
    /\ key # line
    /\ line # <<>>

LexerCalled == pc = "lexed" /\ op.fn \in {"string", "integer", "numeric", "datetime"}

\* the first character after the leading white space of t is '='
NoKeywordBeforeEquals(t) ==
    LET b == FirstOutside(t, 1, WhiteSpace)
    IN  b <= Len(t) /\ t[b] = "="

\* C11: in the string, integer, float and date-time lexers every line that is no
\* comment and whose '=' has only white space (or nothing) before it yields
\* EmptyKeyword, whatever follows the '='.
C11_NoKeywordIsEmptyKeyword ==
    (LexerCalled /\ NoKeywordBeforeEquals(line)) => result.tag = "EmptyKeyword"

\* the schema with its three fields required
RequiredSchema ==
    <<FieldOf(<<"V">>, "string", TRUE), FieldOf(<<"A">>, "composite", TRUE),
      FieldOf(<<"F">>, "float", TRUE)>>

\* three lines, one for each field in schema order, each with a value of the
\* field's kind
OneLinePerField ==
    /\ schema = RequiredSchema
    /\ Len(lines) = 3
    /\ lines[1] = VersionLine
    /\ lines[2] \in {AxisUnitLine, AxisLine}
    /\ lines[3] = FloatLine

Decimal(m, e) == [neg |-> FALSE, m |-> m, e |-> e]

\* C12: a record of a required string field, a required composite field (float
\* and optional unit) and a required float field, over exactly three lines whose
\* keywords match the fields in order and whose values are of the fields' kinds
\* (leading white space allowed): the walk consumes one line per field, never
\* fails, and returns the record with the string, with the composite's number and
\* unit both taken from its one line (no unit when the line has no bracket), and
\* with the float, the cursor being past the last line.
C12_OneLinePerField ==
    OneLinePerField =>
        /\ pc # "failed"
        /\ pc = "walk" => cursor = field
        /\ pc = "done" =>
             /\ cursor = Len(lines) + 1
             /\ result.tag = "Ok"
             /\ result.record.comments = <<>>
             /\ result.record.fields =
                  << [tag |-> "Ok", value |-> <<"3", ".", "0">>, unit |-> None],
                     [tag |-> "Ok", value |-> Decimal(45, 0 - 1),
                      unit |-> IF lines[2] = AxisUnitLine THEN Some(<<"k", "m">>) ELSE None],
                     [tag |-> "Ok", value |-> Decimal(125, 0 - 1), unit |-> None] >>

C12_Witness ==
    /\ OneLinePerField
    /\ lines[2] = AxisUnitLine
    /\ pc = "done"
    /\ cursor = 4
    /\ result.record.fields[2] =
         [tag |-> "Ok", value |-> Decimal(45, 0 - 1), unit |-> Some(<<"k", "m">>)]

\* the walk is at a field and has nothing for it: no line remains, or the keyword
\* of the next data line (a line that is no COMMENT line) is not the field's
NothingForField ==
    /\ pc = "walk"
    /\ HasField
    /\ ~HasLine \/ LeadingRun(lines[cursor]) \notin {schema[field].kw, COMMENT}

\* C13: whenever the field being processed is mandatory and no line remains or the
\* keyword of the next data line is not the field's, the step fails the whole call
\* with KeywordNotFound holding that field's keyword, consumes no line, and no
\* record, partial or not, is returned.
C13_MandatoryFieldFails ==
    /\ [](pc = "failed" => result = NoResult)
    /\ [][(NothingForField /\ schema[field].required) =>
            /\ pc' = "failed"
            /\ shared' = [tag |-> "KeywordNotFound", expected |-> schema[field].kw]
            /\ cursor' = cursor
            /\ result' = NoResult]_vars

C13_Witness ==
    /\ pc = "failed"
    /\ op.fn = "mismatch"
    /\ field = 2
    /\ cursor = 2
    /\ lines[cursor] = FloatLine
    /\ shared = [tag |-> "KeywordNotFound", expected |-> <<"A">>]
    /\ result = NoResult

\* the walk is at a field whose keyword is the keyword of the next line
LineForField ==
    /\ pc = "walk"
    /\ HasField
    /\ HasLine
    /\ LeadingRun(lines[cursor]) = schema[field].kw

\* C14: the cursor only moves forward, one line at a time, and only over a line
\* whose keyword matched (the field's keyword, or COMMENT for a comment line);
\* when the keyword of the next data line is not the keyword of an optional field,
\* the field takes its default, the cursor stays and the walk goes on with the
\* next field at the same line; a value-format error on a matched line of an
\* optional or a mandatory field fails the call with that error, no default is
\* stored for it, and nothing happens after the failure.
C14_ConsumeOnlyOnMatch ==
    [][/\ cursor' \in {cursor, cursor + 1}
       /\ cursor' # cursor =>
            /\ HasLine
            /\ LeadingRun(lines[cursor]) \in {schema[field].kw, COMMENT}
       /\ (NothingForField /\ HasLine /\ ~schema[field].required) =>
            /\ pc' = "walk"
            /\ cursor' = cursor
            /\ field' = field + 1
            /\ record' = [record EXCEPT !.fields = Append(@, Default)]
       /\ (LineForField /\ lines[cursor] = BadFloatLine) =>
            /\ pc' = "failed"
            /\ shared' = [tag |-> "InvalidDateTimeFormat", input |-> BadFloatLine]
            /\ record' = record
            /\ result' = NoResult
       /\ pc = "failed" => UNCHANGED <<pc, shared, result, walk>>]_vars

C14_Witness ==
    /\ pc = "walk"
    /\ op.fn = "consume"
    /\ ~schema[1].required
    /\ lines[1] = AxisUnitLine
    /\ cursor = 2
    /\ field = 3
    /\ record.fields[1] = Default
    /\ record.fields[2].unit = Some(<<"k", "m">>)

\* C15: the date-time lexer is total: for every line it returns Ok or one of
\* EmptyKeyword, EmptyValue, InvalidFormat and never unwinds, lines with no
\* integer digit of seconds included.
C15_DateTimeTotal ==
    (pc = "lexed" /\ op.fn = "datetime") =>
        result.tag \in {"Ok", "EmptyKeyword", "EmptyValue", "InvalidFormat"}

\* C16: in the integer lexer a value that matches the integer grammar but does not
\* fit the target type (too large for its width, or negative for an unsigned
\* type) gives InvalidFormat holding the input line, on every line with a keyword;
\* and every Ok result is the integer written in the line, leading zeros and a
\* leading '+' ignored.
C16_NoWrappedInteger ==
    /\ (/\ NumberCalled
        /\ op.fn = "integer"
        /\ parts.kw # <<>>
        /\ parts.num.kind = "int"
        /\ ~InRange(parts.num.int, op.T)
        /\ (parts.unit.kind = "none" \/ (parts.unit.kind = "closed" /\ op.with_unit))) =>
           result = [tag |-> "InvalidFormat", input |-> line]
    /\ (NumberCalled /\ op.fn = "integer" /\ result.tag = "Ok") =>
           /\ parts.num.kind = "int"
           /\ result.value = parts.num.int

C16_Witness ==
    /\ NumberCalled
    /\ op.fn = "integer"
    /\ ~op.T.signed
    /\ parts.kw = <<"K">>
    /\ parts.num.text = <<"-", "5">>
    /\ parts.unit.kind = "none"
    /\ result = [tag |-> "InvalidFormat", input |-> line]

\* C17: with units enabled the integer and the float lexer take a unit only when
\* white space separates it from the value and it stands between '[' and ']': an
\* Ok result holds a unit only on such a line (K = 5[km] and K = 5 [km give no
\* Ok with unit km).
C17_UnitNeedsBlankAndBrackets ==
    (NumberCalled /\ op.with_unit /\ result.tag = "Ok" /\ result.unit # None) =>
        /\ parts.ws4 # <<>>
        /\ parts.unit.kind = "closed"

\* C18: the keyword matcher and the value lexers agree on the keyword of a line:
\* whenever a value lexer accepts a line through its grammar and the matcher says
\* the line's keyword is the expected key, the keyword that lexer took before the
\* '=' is that key.
C18_MatcherAgreesWithLexers ==
    (/\ LexerCalled
     /\ result.tag = "Ok"
     /\ LexerKeyword(op, line) # None
     /\ kvn_line_matches_key_new(key, line) = [tag |-> "Ok", value |-> TRUE]) =>
        LexerKeyword(op, line) = Some(key)

=============================================================================
